---- MODULE Spec2Model ----
(***************************************************************************)
(* Model of kikuchipy.simulations.KikuchiPatternSimulator                  *)
(* (src/src/kikuchipy/simulations/kikuchi_pattern_simulator.py).           *)
(*                                                                         *)
(* Numbers.  The source computes with floating point numbers; the model    *)
(* computes with integers on inputs for which the source's arithmetic is   *)
(* exact:                                                                  *)
(*  - the phase is cubic with lattice parameter 1, so lattice.base and     *)
(*    lattice.recbase are the identity matrix;                             *)
(*  - rotation matrices (crystal orientations, detector orientation) are   *)
(*    signed permutation matrices (angles that are multiples of 90 deg);   *)
(*  - gnomonic detector bounds and pixel sizes are integers;               *)
(*  - a quotient X/Z is never formed: a comparison X/Z >= lo is decided    *)
(*    by cross-multiplication with the sign of Z, and Z = 0 yields the     *)
(*    IEEE results inf/nan, for which both comparisons cannot hold;        *)
(*  - the square of a gnomonic radius is carried instead of the radius,    *)
(*    and a coordinate (a + b sqrt(D)) / n of the end point of a line is   *)
(*    carried by the integers a, b, D and n;                               *)
(*  - unit vectors of the master pattern kernel have rational components   *)
(*    with denominator Scale, a Bragg angle theta is carried by the        *)
(*    numerator of sin(theta) over Scale^2, and arccos (decreasing) turns  *)
(*    comparisons of angles into comparisons of dot products.              *)
(***************************************************************************)
EXTENDS Integers, Sequences, FiniteSets, TLC

\* ------------------------------------------------------------------------
\* Bounds of the model
\* ------------------------------------------------------------------------

\* Largest number of reflectors held by a simulator.
MaxReflectors == 3

\* Largest number of navigation positions along one navigation axis.
MaxNav == 2

\* ------------------------------------------------------------------------
\* Vector and matrix helpers (numpy / dask array operations)
\* ------------------------------------------------------------------------

Abs(x) == IF x < 0 THEN -x ELSE x

RECURSIVE Gcd(_, _)
Gcd(a, b) == IF b = 0 THEN Abs(a) ELSE Gcd(b, a % Abs(b))

Cross(a, b) ==
    << a[2] * b[3] - a[3] * b[2],
       a[3] * b[1] - a[1] * b[3],
       a[1] * b[2] - a[2] * b[1] >>

\* Row vector times matrix: da.matmul(v, M).
VecMat(v, M) ==
    << v[1] * M[1][1] + v[2] * M[2][1] + v[3] * M[3][1],
       v[1] * M[1][2] + v[2] * M[2][2] + v[3] * M[3][2],
       v[1] * M[1][3] + v[2] * M[2][3] + v[3] * M[3][3] >>

\* da.matmul(A, B) of two 3x3 matrices (tuples of rows).
MatMul(A, B) == << VecMat(A[1], B), VecMat(A[2], B), VecMat(A[3], B) >>

Identity3 == << <<1, 0, 0>>, <<0, 1, 0>>, <<0, 0, 1>> >>

\* Boolean-mask indexing a[mask]: the elements whose mask entry is TRUE, in
\* their original order.
Compress(s, mask) ==
    LET kept == {i \in DOMAIN s : mask[i]}
        before == [i \in DOMAIN s |-> Cardinality({j \in kept : j < i})]
    IN  [k \in 1..Cardinality(kept) |->
            s[CHOOSE i \in kept : before[i] = k - 1]]

RECURSIVE Product(_)
Product(shape) == IF shape = <<>> THEN 1 ELSE Head(shape) * Product(Tail(shape))

Range(s) == {s[i] : i \in DOMAIN s}

\* np.isclose(a, 0) of an integer-valued a: |a| <= atol = 1e-8, i.e. a = 0.
IsCloseToZero(a) == a = 0

\* ------------------------------------------------------------------------
\* Input pools
\* ------------------------------------------------------------------------

\* Reflectors {hkl} offered to the simulator.  A simulator holds an
\* order-preserving selection of at most MaxReflectors of them.
HklPool ==
    << <<0, 0, 1>>, <<0, 0, -1>>, <<1, 0, 0>>,
       <<0, 1, 1>>, <<1, 1, 0>>, <<2, 0, 1>> >>

\* Crystal orientations as rotation matrices (Rotation.to_matrix()).
RotX90  == << <<1, 0, 0>>, <<0, 0, 1>>, <<0, -1, 0>> >>
RotX180 == << <<1, 0, 0>>, <<0, -1, 0>>, <<0, 0, -1>> >>
RotZ90  == << <<0, 1, 0>>, <<-1, 0, 0>>, <<0, 0, 1>> >>
RotPool == {Identity3, RotX90, RotX180}

\* Navigation shapes: 1D (n,) and 2D (1, n), n in 1..MaxNav.
NavShapes == {<<n>> : n \in 1..MaxNav} \cup {<<1, n>> : n \in 1..MaxNav}

Max(a, b) == IF a >= b THEN a ELSE b

\* EBSDDetector.shape: the numbers of rows and columns of pixels.
DetectorShape == << 3, 3 >>

\* Gnomonic geometry of one position of a detector of DetectorShape, as
\* EBSDDetector exposes it: x_range and y_range (min, max), x_scale and
\* y_scale (the distances between neighbouring columns and rows of
\* pixels), and r_max, the distance from the
\* projection center, which is the origin of the gnomonic plane, to the
\* farthest corner of the detector.  The model carries the square of r_max.
Position(x_range, y_range) ==
    [x_range |-> x_range, y_range |-> y_range,
     x_scale |-> (x_range[2] - x_range[1]) \div (DetectorShape[2] - 1),
     y_scale |-> (y_range[2] - y_range[1]) \div (DetectorShape[1] - 1),
     r_max   |-> Max(x_range[1] * x_range[1], x_range[2] * x_range[2])
                 + Max(y_range[1] * y_range[1], y_range[2] * y_range[2])]

\* The projection center in the middle of the detector.
CentredPosition == Position(<<-1, 1>>, <<-1, 1>>)

\* Projection centers of a detector: in its middle, and in its lower left
\* corner.
PosPool == { CentredPosition, Position(<<0, 2>>, <<0, 2>>) }

\* Sequences over S of length exactly n.
SeqN(S, n) == [1..n -> S]

\* Order-preserving selections of at most n elements of the sequence pool.
Selections(pool, n) ==
    { Compress(pool, m) : m \in { mm \in [DOMAIN pool -> BOOLEAN] :
          LET c == Cardinality({i \in DOMAIN pool : mm[i]})
          IN  c >= 1 /\ c <= n } }

Rotations ==
    UNION { { [shape |-> sh, data |-> d] : d \in SeqN(RotPool, Product(sh)) }
            : sh \in NavShapes }

\* The detector with one projection center, in its middle, whose x_range
\* and y_range return the arrays the detector holds.
StoredDetectors ==
    { [navigation_shape |-> <<1>>, u_s |-> RotZ90, ranges |-> "stored",
       pos |-> << CentredPosition >>] }

\* Detectors whose x_range and y_range are made at each access, of every
\* navigation shape, and the detectors with stored ranges.
Detectors ==
    UNION { { [navigation_shape |-> sh, u_s |-> RotZ90, ranges |-> "computed",
               pos |-> d]
              : d \in SeqN(PosPool, Product(sh)) }
            : sh \in NavShapes }
    \cup StoredDetectors


\* ------------------------------------------------------------------------
\* Floating point values that may be "not a number"
\* ------------------------------------------------------------------------

NaN == [nan |-> TRUE, v |-> 0]
Float(x) == [nan |-> FALSE, v |-> x]
isnan(x) == x.nan

\* ------------------------------------------------------------------------
\* KikuchiPatternSimulator.on_detector
\* ------------------------------------------------------------------------

\* Mutant: the numbers of positions are compared, not the shapes.
shape_mismatch_by_size(detector, rotations) ==
    /\ Product(detector.navigation_shape) # 1
    /\ Product(detector.navigation_shape) # Product(rotations.shape)

\* The precondition on the navigation shapes (Python tuple comparison).
shape_mismatch(detector, rotations) ==
    /\ detector.navigation_shape # <<1>>
    /\ detector.navigation_shape # rotations.shape

\* Transformation from the detector frame CSd to the sample frame CSs.  The
\* matrix is computed from detector.sample_tilt and detector.euler alone; the
\* model's detector carries the resulting matrix.
u_s(detector) == detector.u_s

\* Mutant: the orientations are taken one position off.
u_os_rolled(detector, rotations) ==
    [p \in DOMAIN rotations.data |->
        MatMul(rotations.data[(p % Len(rotations.data)) + 1], u_s(detector))]

\* Transformation from CSs to the cartesian crystal frame CSc, one matrix
\* per navigation position.
u_os(detector, rotations) ==
    [p \in DOMAIN rotations.data |-> MatMul(rotations.data[p], u_s(detector))]

\* lattice.recbase.T and lattice.base of the cubic unit lattice.
u_astar == Identity3
u_a == Identity3

u_kstar(uos) == [p \in DOMAIN uos |-> MatMul(u_astar, uos[p])]
u_k(uos) == [p \in DOMAIN uos |-> MatMul(u_a, uos[p])]

\* Transform index triplets (rows of vecs) to the detector frame, for every
\* navigation position: da.matmul(da.from_array(vecs), u).
to_detector(vecs, u) ==
    [p \in DOMAIN u |-> [i \in DOMAIN vecs |-> VecMat(vecs[i], u[p])]]

\* Mutant: vectors in the detector plane count as upper.
is_upper_or_level(v_d) ==
    [p \in DOMAIN v_d |-> [i \in DOMAIN v_d[p] |-> v_d[p][i][3] >= 0]]

\* da.greater(da.atleast_2d(v_d[..., 2]), 0)
is_upper(v_d) ==
    [p \in DOMAIN v_d |-> [i \in DOMAIN v_d[p] |-> v_d[p][i][3] > 0]]

\* da.sum(flags, axis=nav_axes): per vector, the number of navigation
\* positions where its flag is set.  n is the number of vectors.
nav_sum(flags, n) ==
    [i \in 1..n |-> Cardinality({p \in DOMAIN flags : flags[p][i]})]

\* Mutant: a reflector must be in the upper hemisphere at every position.
hkl_in_a_pattern_everywhere(hkl_is_upper, n) ==
    [i \in 1..n |-> nav_sum(hkl_is_upper, n)[i] = Cardinality(DOMAIN hkl_is_upper)]

\* ~da.isclose(da.sum(hkl_is_upper, axis=nav_axes), 0)
hkl_in_a_pattern(hkl_is_upper, n) ==
    [i \in 1..n |-> ~IsCloseToZero(nav_sum(hkl_is_upper, n)[i])]

\* ref2.cross(ref2.transpose()) of the column ref2 against its transpose:
\* all pairwise cross products in row-major order.  The cross product of two
\* reciprocal lattice vectors is a direct lattice vector whose indices are
\* proportional to the cross product of the index triplets.
pairwise_cross(hkl) ==
    LET n == Len(hkl)
    IN  [k \in 1..(n * n) |->
            Cross(hkl[((k - 1) \div n) + 1], hkl[((k - 1) % n) + 1])]

is_null(v) == IsCloseToZero(v[1]) /\ IsCloseToZero(v[2]) /\ IsCloseToZero(v[3])

\* uvw_miller[~np.isclose(uvw_miller.data, 0).all(axis=-1)]
remove_null(uvw) == Compress(uvw, [k \in DOMAIN uvw |-> ~is_null(uvw[k])])

\* Mutant: indices are rounded to the nearest integers but not reduced.
round_indices_unreduced(v) == v

\* Miller.round(): the closest smallest integers of an index triplet.  For
\* a triplet proportional to integers whose reduced indices do not exceed
\* max_index = 20 this is the division by the greatest common divisor.
round_indices(v) ==
    LET g == Gcd(Gcd(v[1], v[2]), v[3])
    IN  IF g = 0 THEN v ELSE << v[1] \div g, v[2] \div g, v[3] \div g >>

round(uvw) == [k \in DOMAIN uvw |-> round_indices(uvw[k])]

\* Miller.unique(): distinct non-null vectors in order of first occurrence.
unique_from(uvw, acc) ==
    acc \o Compress(uvw,
                    [k \in DOMAIN uvw |->
                        /\ ~is_null(uvw[k])
                        /\ uvw[k] \notin Range(acc)
                        /\ \A j \in 1..(k - 1) : uvw[j] # uvw[k]])

unique(uvw) == unique_from(uvw, <<>>)

\* Zone axes <uvw> from the visible reflectors {hkl}.
zone_axes_from(hkl) == unique(round(remove_null(pairwise_cross(hkl))))

\* Mutant: the upper hemisphere test of zone axes is left out.
uvw_in_a_pattern_always(uvw_is_upper, n) == [k \in 1..n |-> TRUE]

\* ~da.isclose(da.sum(uvw_is_upper, axis=nav_axes), 0)
uvw_in_a_pattern(uvw_is_upper, n) ==
    [k \in 1..n |-> ~IsCloseToZero(nav_sum(uvw_is_upper, n)[k])]

\* X / Z of float64 arrays, as a fraction, or what IEEE arithmetic gives for
\* a zero denominator: infinity, or nan for 0 / 0.
divide(X, Z) ==
    IF Z # 0 THEN [kind |-> "finite", num |-> X, den |-> Z]
    ELSE IF X # 0 THEN [kind |-> "inf", num |-> X, den |-> 0]
    ELSE [kind |-> "nan", num |-> 0, den |-> 0]

\* uvw_xg = uvw_d[..., 0] / uvw_d[..., 2]
uvw_xg(uvw_d) ==
    [p \in DOMAIN uvw_d |->
        [k \in DOMAIN uvw_d[p] |-> divide(uvw_d[p][k][1], uvw_d[p][k][3])]]

\* uvw_yg = uvw_d[..., 1] / uvw_d[..., 2]
uvw_yg(uvw_d) ==
    [p \in DOMAIN uvw_d |->
        [k \in DOMAIN uvw_d[p] |-> divide(uvw_d[p][k][2], uvw_d[p][k][3])]]

\* Mutant: the gnomonic range is not extended.
extend_range_not(range, scale) == range

\* The gnomonic range extended by one detector pixel on both sides.
extend_range(range, scale) == << range[1] - scale, range[2] + scale >>

\* (X / Z >= lo) and (X / Z <= hi) in IEEE arithmetic.  Z = 0 gives
\* X / Z = +-inf or nan, which is never within finite bounds.
within_range(X, Z, range) ==
    IF Z > 0 THEN X >= range[1] * Z /\ X <= range[2] * Z
    ELSE IF Z < 0 THEN X <= range[1] * Z /\ X >= range[2] * Z
    ELSE FALSE

\* The detector position paired with navigation position p: a detector of
\* navigation shape (1,) is broadcast over all positions.
detector_position(detector, p) ==
    IF Len(detector.pos) = 1 THEN detector.pos[1] ELSE detector.pos[p]

\* within_x * within_y for zone axis vector v (detector frame) at position p.
within_bounds_at(v, pos) ==
    /\ within_range(v[1], v[3], extend_range(pos.x_range, pos.x_scale))
    /\ within_range(v[2], v[3], extend_range(pos.y_range, pos.y_scale))

\* da.any(within_x * within_y, axis=nav_axes)
within_gnomonic_bounds(uvw_d, detector, n) ==
    [k \in 1..n |->
        \E p \in DOMAIN uvw_d :
            within_bounds_at(uvw_d[p][k], detector_position(detector, p))]

\* Mutant: the gnomonic bounds do not gate the zone axes retained.
logical_and_first(a, b) == a

\* da.logical_and(uvw_in_a_pattern, within_gnomonic_bounds)
logical_and(a, b) == [k \in DOMAIN a |-> a[k] /\ b[k]]

\* Mutant: the vectors kept come out in reverse order.
mask_vectors_reversed(v, mask) ==
    [p \in DOMAIN v |->
        LET kept == Compress(v[p], mask)
        IN  [k \in DOMAIN kept |-> kept[Len(kept) + 1 - k]]]

\* v[..., mask] and v[..., mask, :]: mask the vector axis at every position.
mask_vectors(v, mask) == [p \in DOMAIN v |-> Compress(v[p], mask)]

\* What dask's ProgressBar() has written to sys.stdout (its default stream)
\* when the computation run within its block is finished: the full bar.
ProgressBar == "[########################################] | 100% Completed"

\* What tqdm(range(n_poles), ncols=80) writes to sys.stderr (its default
\* stream): one progress bar for the loop over the poles.
tqdm == "tqdm"

\* sys.stdout of a call that returns: each print is followed by the bar of
\* the computation run in the same ProgressBar block.
OnDetectorStdout ==
    << "Finding bands that are in some pattern:", ProgressBar,
       "Finding zone axes that are in some pattern:", ProgressBar,
       "Calculating detector coordinates for bands and zone axes:", ProgressBar >>

NoValue == [none |-> TRUE]

\* Largest number of times the ranges of one detector are extended in place.
MaxExtensions == 1

\* x_range[..., 0] -= x_scale and the three assignments that follow it,
\* applied to the ranges of the detector itself.
extended_in_place(detector) ==
    [detector EXCEPT !.pos =
        [p \in DOMAIN detector.pos |->
            [detector.pos[p] EXCEPT
                !.x_range = extend_range(detector.pos[p].x_range,
                                         detector.pos[p].x_scale),
                !.y_range = extend_range(detector.pos[p].y_range,
                                         detector.pos[p].y_scale)]]]

\* The number of times the ranges of a detector of DetectorShape have been
\* extended by a pixel on both sides.
extensions(detector) ==
    LET pos == detector.pos[1]
    IN  ((pos.x_range[2] - pos.x_range[1]) \div pos.x_scale
            - (DetectorShape[2] - 1)) \div 2

\* The caller's detector after the call.  on_detector extends in place the
\* arrays that detector.x_range and detector.y_range return and copies
\* neither: a detector whose accessors return the arrays it holds
\* ("stored") has its ranges extended, a detector whose accessors make the
\* arrays at each access ("computed") is left as it was.
detector_after(detector) ==
    IF detector.ranges = "stored" THEN extended_in_place(detector)
    ELSE detector

\* np.max(detector.r_max), squared.
max_r_gnomonic(detector) ==
    LET r == {detector.pos[p].r_max : p \in DOMAIN detector.pos}
    IN  CHOOSE m \in r : \A x \in r : x <= m

\* What a call leaves behind: the exception raised ("" when it returned),
\* the value returned, what was written to stdout and to stderr, the number of
\* get_pattern passes run, whether anything was drawn, and the caller's
\* detector after the call.
on_detector(ref, detector, rotations) ==
    IF shape_mismatch(detector, rotations)
    THEN [raised |-> "ValueError", value |-> NoValue, stdout |-> <<>>, stderr |-> <<>>,
          kernel_passes |-> 0, drawn |-> FALSE, detector |-> detector]
    ELSE
      LET hkl       == [i \in DOMAIN ref |-> ref[i].hkl]
          uos       == u_os(detector, rotations)
          hkl_d     == to_detector(hkl, u_kstar(uos))
          hkl_up    == is_upper(hkl_d)
          hkl_mask  == hkl_in_a_pattern(hkl_up, Len(hkl))
          visible   == Compress(ref, hkl_mask)
          ref2      == Compress(hkl, hkl_mask)
          uvw       == zone_axes_from(ref2)
          uvw_d     == to_detector(uvw, u_k(uos))
          uvw_up    == is_upper(uvw_d)
          uvw_mask  == logical_and(
                           uvw_in_a_pattern(uvw_up, Len(uvw)),
                           within_gnomonic_bounds(uvw_d, detector, Len(uvw)))
          lines     == [hkl          |-> ref2,
                        hkl_detector |-> mask_vectors(hkl_d, hkl_mask),
                        in_pattern   |-> mask_vectors(hkl_up, hkl_mask),
                        max_r_gnomonic |-> max_r_gnomonic(detector_after(detector))]
          zone_axes == [uvw          |-> Compress(uvw, uvw_mask),
                        uvw_detector |-> mask_vectors(uvw_d, uvw_mask),
                        in_pattern   |-> mask_vectors(uvw_up, uvw_mask),
                        max_r_gnomonic |-> max_r_gnomonic(detector_after(detector))]
      IN  [raised |-> "",
           value  |-> [detector   |-> detector_after(detector),
                       rotations  |-> rotations,
                       reflectors |-> visible,
                       lines      |-> lines,
                       zone_axes  |-> zone_axes],
           stdout |-> OnDetectorStdout, stderr |-> <<>>,
           kernel_passes |-> 0, drawn |-> FALSE,
           detector |-> detector_after(detector)]


\* ------------------------------------------------------------------------
\* KikuchiPatternSimulator.calculate_master_pattern
\* ------------------------------------------------------------------------

\* Largest half_size passed to calculate_master_pattern.
MaxHalfSize == 1

\* Python's None.
None == "<None>"

Raise(exception, detector) ==
    [raised |-> exception, value |-> NoValue, stdout |-> <<>>, stderr |-> <<>>,
     kernel_passes |-> 0, drawn |-> FALSE, detector |-> detector]

\* x[0] of an array x with one entry per reflector raises IndexError when
\* there are no reflectors.
no_first(ref) == Len(ref) = 0

\* np.max(intensity) raises ValueError when there are no reflectors.
no_max(ref) == Len(ref) = 0

\* np.isnan(self.reflectors.theta[0])
no_theta(ref) == isnan(ref[1].theta)

\* Mutant: structure factors are not checked.
no_structure_factor_unchecked(ref) == FALSE

\* np.isnan(self.reflectors.structure_factor[0])
no_structure_factor(ref) == isnan(ref[1].structure_factor)

\* The poles of the hemisphere(s) to calculate, one kernel pass each.
poles_from_hemisphere(hemisphere) ==
    IF hemisphere = "both" THEN << "upper", "lower" >> ELSE << hemisphere >>

\* abs() of a real structure factor; NaN stays NaN.
fabs(x) == IF isnan(x) THEN NaN ELSE Float(Abs(x.v))

\* abs(factor * factor.conjugate())
fsquare(x) == IF isnan(x) THEN NaN ELSE Float(x.v * x.v)

\* Mutant: the match statement has no default case.
known_scaling_any(scaling) == TRUE

known_scaling(scaling) == scaling \in {"linear", "square", None}

\* The band intensities of the match statement, for a known scaling.
scaled_intensity(ref, scaling) ==
    [i \in DOMAIN ref |->
        CASE scaling = "linear" -> fabs(ref[i].structure_factor)
          [] scaling = "square" -> fsquare(ref[i].structure_factor)
          [] OTHER              -> Float(1)]

\* patterns.reshape(-1, size, size).squeeze(): axes of length 1 are removed.
squeeze(shape) == SelectSeq(shape, LAMBDA n : n # 1)

\* Python's floor division -size // 2.
axis_offset(size) == (0 - size) \div 2

master_pattern_axes(hemisphere, size) ==
    (IF hemisphere = "both" THEN << [size |-> 2, name |-> "hemisphere"] >>
     ELSE <<>>)
    \o << [size |-> size, name |-> "height", offset |-> axis_offset(size),
           units |-> "px"],
          [size |-> size, name |-> "width",  offset |-> axis_offset(size),
           units |-> "px"] >>

\* Mutant: scaling is looked at only once the kernel passes have been run.
calculate_master_pattern_late(ref, half_size, hemisphere, scaling, detector) ==
    IF no_first(ref) THEN Raise("IndexError", detector)
    ELSE IF no_theta(ref) THEN Raise("ValueError", detector)
    ELSE IF no_structure_factor(ref) THEN Raise("ValueError", detector)
    ELSE
      LET size    == 2 * half_size + 1
          poles   == poles_from_hemisphere(hemisphere)
          n_poles == Len(poles)
      IN  IF ~known_scaling(scaling)
          THEN [raised |-> "ValueError", value |-> NoValue,
                stdout |-> <<>>, stderr |-> << tqdm >>, kernel_passes |-> n_poles,
                drawn |-> FALSE, detector |-> detector]
          ELSE [raised |-> "",
                value  |-> [shape      |-> squeeze(<< n_poles, size, size >>),
                            axes       |-> master_pattern_axes(hemisphere, size),
                            hemisphere |-> hemisphere,
                            projection |-> "stereographic",
                            intensity  |-> scaled_intensity(ref, scaling),
                            n_pixels   |-> size * size],
                stdout |-> <<>>, stderr |-> << tqdm >>,
                kernel_passes |-> n_poles, drawn |-> FALSE,
                detector |-> detector]

calculate_master_pattern(ref, half_size, hemisphere, scaling, detector) ==
    IF no_first(ref) THEN Raise("IndexError", detector)
    ELSE IF no_theta(ref) THEN Raise("ValueError", detector)
    ELSE IF no_structure_factor(ref) THEN Raise("ValueError", detector)
    ELSE IF ~known_scaling(scaling) THEN Raise("ValueError", detector)
    ELSE
      LET size    == 2 * half_size + 1
          poles   == poles_from_hemisphere(hemisphere)
          n_poles == Len(poles)
      IN  [raised |-> "",
           value  |-> [shape      |-> squeeze(<< n_poles, size, size >>),
                       axes       |-> master_pattern_axes(hemisphere, size),
                       hemisphere |-> hemisphere,
                       projection |-> "stereographic",
                       intensity  |-> scaled_intensity(ref, scaling),
                       n_pixels   |-> size * size],
           stdout |-> <<>>, stderr |-> << tqdm >>,
           kernel_passes |-> n_poles, drawn |-> FALSE, detector |-> detector]

\* ------------------------------------------------------------------------
\* KikuchiPatternSimulator.plot
\* ------------------------------------------------------------------------

\* _plot_spherical: any backend other than "matplotlib" imports pyvista.
plot_spherical(backend, pyvista_installed, detector) ==
    IF backend # "matplotlib" /\ ~pyvista_installed
    THEN Raise("ImportError", detector)
    ELSE [raised |-> "", value |-> NoValue, stdout |-> <<>>, stderr |-> <<>>,
          kernel_passes |-> 0, drawn |-> TRUE, detector |-> detector]

plot(ref, projection, mode, scaling, backend, pyvista_installed, detector) ==
    IF projection = "spherical" /\ backend = "pyvista" /\ ~pyvista_installed
    THEN Raise("ImportError", detector)
    ELSE IF mode \notin {"lines", "bands"} THEN Raise("ValueError", detector)
    ELSE IF mode = "bands" /\ no_first(ref) THEN Raise("IndexError", detector)
    ELSE IF mode = "bands" /\ no_theta(ref) THEN Raise("ValueError", detector)
    ELSE IF ~known_scaling(scaling) THEN Raise("ValueError", detector)
    ELSE IF scaling \in {"linear", "square"} /\ no_max(ref)
         THEN Raise("ValueError", detector)
    ELSE IF projection = "stereographic"
         THEN [raised |-> "", value |-> NoValue, stdout |-> <<>>, stderr |-> <<>>,
               kernel_passes |-> 0, drawn |-> TRUE, detector |-> detector]
    ELSE IF projection = "spherical"
         THEN plot_spherical(backend, pyvista_installed, detector)
    ELSE Raise("ValueError", detector)

\* ------------------------------------------------------------------------
\* Capture of inputs
\* ------------------------------------------------------------------------

\* x.deepcopy(), copy.deepcopy(x): the field holds a copy that shares no
\* memory with x.
deepcopy(field) == {}

\* self.field = x: the field refers to x itself.
reference(field) == {field}

\* Mutant: the reflectors are stored as passed.
init_shared_by_reference == reference("simulator.reflectors")

\* __init__: self._reflectors = reflectors.deepcopy().flatten()
init_shared == deepcopy("simulator.reflectors")

\* x[mask]: indexing with a boolean mask gives new arrays.
boolean_index(field) == {}

\* GeometricalKikuchiPatternSimulation(detector, rotations, reflectors, ...)
\* deep-copies its three inputs.
simulation_shared ==
    deepcopy("result.detector") \cup deepcopy("result.rotations")
        \cup (boolean_index("result.reflectors") \cap deepcopy("result.reflectors"))

\* ------------------------------------------------------------------------
\* GeometricalKikuchiPatternSimulation: coordinate queries on a result
\* ------------------------------------------------------------------------

\* The point (xn / d, yn / d) of the gnomonic plane, d # 0, as the integer
\* triplet (x, y, w) in lowest terms with w > 0 that stands for (x/w, y/w).
point(xn, yn, d) ==
    LET g == Gcd(Gcd(xn, yn), d)
        sg == IF d < 0 THEN -1 ELSE 1
    IN  << (sg * xn) \div g, (sg * yn) \div g, (sg * d) \div g >>

\* The number (a + b * sqrt(D)) / n.
surd(a, b, D, n) == [a |-> a, b |-> b, D |-> D, n |-> n]

\* The trace X x + Y y + Z = 0 of the plane with detector-frame normal
\* v = (X, Y, Z) passes the projection center at the distance
\* |Z| / sqrt(X^2 + Y^2), which is smaller than the radius max_r_gnomonic
\* (r2 is its square): the trace has a chord of non-zero length in the
\* circle of that radius about the projection center.
line_within_r_gnomonic(v, r2) ==
    v[3] * v[3] < r2 * (v[1] * v[1] + v[2] * v[2])

\* The end points (x1, y1, x2, y2) of that chord: the foot of the
\* perpendicular from the projection center, (-X Z, -Y Z) / (X^2 + Y^2),
\* moved along the trace by sqrt(r^2 - Z^2 / (X^2 + Y^2)) to either side.
plane_trace_coordinates(vector, r2) ==
    LET v == round_indices(vector)
        X == v[1]
        Y == v[2]
        Z == v[3]
        n == X * X + Y * Y
        D == r2 * n - Z * Z
    IN  << surd(0 - X * Z, Y, D, n),     surd(0 - Y * Z, 0 - X, D, n),
           surd(0 - X * Z, 0 - Y, D, n), surd(0 - Y * Z, X, D, n) >>

\* lines_coordinates(index): the end points of every line that is flagged
\* in-pattern at index and passes the projection center within the largest
\* gnomonic radius of the detector, in the order of the lines.
lines_coordinates(sim, index) ==
    LET v_d == sim.lines.hkl_detector[index]
        r2  == sim.lines.max_r_gnomonic
    IN  Compress([k \in DOMAIN v_d |-> plane_trace_coordinates(v_d[k], r2)],
                 [k \in DOMAIN v_d |->
                     /\ sim.lines.in_pattern[index][k]
                     /\ line_within_r_gnomonic(v_d[k], r2)])

\* The gnomonic projection (X/Z, Y/Z) of v lies closer to the projection
\* center than the radius max_r_gnomonic (r2 is its square).
point_within_r_gnomonic(v, r2) ==
    v[1] * v[1] + v[2] * v[2] < r2 * v[3] * v[3]

\* All zone axes flagged in-pattern at index, whatever their distance from
\* the projection center.
zone_axes_coordinates_unclipped(sim, index) ==
    LET v_d == sim.zone_axes.uvw_detector[index]
    IN  Compress([k \in DOMAIN v_d |->
                     IF v_d[k][3] = 0 THEN <<0, 0, 0>>
                     ELSE point(v_d[k][1], v_d[k][2], v_d[k][3])],
                 sim.zone_axes.in_pattern[index])

\* zone_axes_coordinates(index): the gnomonic projection (X/Z, Y/Z) of
\* every zone axis that is flagged in-pattern at index and lies within the
\* largest gnomonic radius of the detector, in the order of the axes.
zone_axes_coordinates(sim, index) ==
    LET v_d == sim.zone_axes.uvw_detector[index]
        r2  == sim.zone_axes.max_r_gnomonic
    IN  Compress([k \in DOMAIN v_d |->
                     IF v_d[k][3] = 0 THEN <<0, 0, 0>>
                     ELSE point(v_d[k][1], v_d[k][2], v_d[k][3])],
                 [k \in DOMAIN v_d |->
                     /\ sim.zone_axes.in_pattern[index][k]
                     /\ point_within_r_gnomonic(v_d[k], r2)])

\* ------------------------------------------------------------------------
\* State
\* ------------------------------------------------------------------------

VARIABLES
    client,      \* which program holds the simulator: "projection" |
                 \* "master" | "capture" | "batch" (or "kernel": none, it
                 \* runs get_pattern only)
    passed,      \* the caller's reflectors that the simulator was made from
    shared,      \* the fields of the simulator and of the latest result
                 \* that share memory with an object the caller holds
    reflectors,  \* KikuchiPatternSimulator._reflectors
    detector,    \* the caller's EBSDDetector
    rotations,   \* the caller's Rotation
    pyvista,     \* whether the optional dependency PyVista is installed
    call,        \* the latest call: its name and its arguments as passed
    result,      \* what the latest call left behind
    query,       \* the latest coordinate query on the result and its value
    k_args,      \* get_pattern: its four argument arrays
    pattern,     \* get_pattern: the shared accumulator array
    task,        \* get_pattern: the state of each iteration of the prange loop
    returned     \* get_pattern: whether it has returned pattern

api_vars ==
    << client, passed, shared, reflectors, detector, rotations, pyvista, call,
       result, query >>
kernel_vars == << k_args, pattern, task, returned >>
vars == << api_vars, kernel_vars >>

\* Bragg angle and structure factor of a reflector once calculated
\* (ReciprocalLatticeVector.calculate_theta, calculate_structure_factor).
calculated_theta(hkl) == Float(hkl[1] * hkl[1] + hkl[2] * hkl[2] + hkl[3] * hkl[3])
calculated_structure_factor(hkl) ==
    Float(4 - (hkl[1] * hkl[1] + hkl[2] * hkl[2] + hkl[3] * hkl[3]))

\* A reflector set with everything calculated.
Calculated(hkls) ==
    [i \in DOMAIN hkls |->
        [hkl |-> hkls[i], theta |-> calculated_theta(hkls[i]),
         structure_factor |-> calculated_structure_factor(hkls[i])]]

\* The index sets at which a field of n reflectors can be missing: nowhere,
\* everywhere (never calculated), only at the first or only past the first
\* reflector.
MissingSets(n) == { {}, 1..n, {1}, 2..n }

WithMissing(ref, no_th, no_sf) ==
    [i \in DOMAIN ref |->
        [hkl |-> ref[i].hkl,
         theta |-> IF i \in no_th THEN NaN ELSE ref[i].theta,
         structure_factor |->
             IF i \in no_sf THEN NaN ELSE ref[i].structure_factor]]

DefaultDetector ==
    [navigation_shape |-> <<1>>, u_s |-> RotZ90, ranges |-> "computed",
     pos |-> << CentredPosition >>]

DefaultRotations == [shape |-> <<1>>, data |-> << Identity3 >>]

NoCall == [op |-> "none"]
NoQuery == [op |-> "none"]
NoResult == Raise("", DefaultDetector)

InitProjection ==
    /\ client = "projection"
    /\ reflectors \in { Calculated(h) : h \in Selections(HklPool, MaxReflectors) }
    /\ detector \in Detectors
    /\ rotations \in Rotations
    /\ pyvista = TRUE

InitMaster ==
    /\ client = "master"
    /\ \E n \in 1..MaxReflectors :
         \E no_th \in MissingSets(n), no_sf \in MissingSets(n) :
            reflectors = WithMissing(Calculated(SubSeq(HklPool, 1, n)), no_th, no_sf)
    /\ detector = DefaultDetector
    /\ rotations = DefaultRotations
    /\ pyvista \in BOOLEAN

\* KikuchiPatternSimulator(passed): the simulator's reflectors hold the
\* values of the reflectors passed (which are one-dimensional, so that
\* flatten() changes nothing).
Constructed ==
    /\ passed = reflectors
    /\ shared = init_shared

NoKernelArgs ==
    [intensity |-> <<>>, xyz_hemi |-> <<>>, xyz_reflector |-> <<>>,
     theta_reflector |-> <<>>]

KernelIdle ==
    /\ k_args = NoKernelArgs
    /\ pattern = <<>>
    /\ task = <<>>
    /\ returned = FALSE

Init ==
    /\ InitProjection \/ InitMaster
    /\ Constructed
    /\ call = NoCall
    /\ result = [NoResult EXCEPT !.detector = detector]
    /\ query = NoQuery
    /\ KernelIdle

Scalings == {"linear", "square", None, "cubic"}
Hemispheres == {"upper", "lower", "both"}
Projections == {"stereographic", "spherical", "lambert"}
Modes == {"lines", "bands", "points"}
Backends == {"matplotlib", "pyvista", "plotly"}

OnDetector ==
    /\ client \in {"projection", "capture", "batch"}
    /\ call' = [op |-> "on_detector", reflectors |-> reflectors,
                detector |-> detector, rotations |-> rotations]
    /\ extensions(detector_after(detector)) <= MaxExtensions
    /\ result' = on_detector(reflectors, detector, rotations)
    /\ detector' = result'.detector
    /\ shared' = (shared \cap {"simulator.reflectors"})
                  \cup (IF result'.raised = "" THEN simulation_shared ELSE {})
    /\ query' = NoQuery
    /\ UNCHANGED << client, passed, reflectors, rotations, pyvista, kernel_vars >>

CalculateMasterPattern ==
    /\ client = "master"
    /\ \E half_size \in 0..MaxHalfSize, hemisphere \in Hemispheres,
          scaling \in Scalings :
         /\ call' = [op |-> "calculate_master_pattern", reflectors |-> reflectors,
                     detector |-> detector, rotations |-> rotations,
                     half_size |-> half_size, hemisphere |-> hemisphere,
                     scaling |-> scaling]
         /\ result' = calculate_master_pattern(reflectors, half_size, hemisphere,
                                               scaling, detector)
    /\ shared' = shared \cap {"simulator.reflectors"}
    /\ query' = NoQuery
    /\ UNCHANGED << client, passed, reflectors, detector, rotations, pyvista,
                    kernel_vars >>

Plot ==
    /\ client = "master"
    /\ \E projection \in Projections, mode \in Modes, scaling \in Scalings,
          backend \in Backends :
         /\ call' = [op |-> "plot", reflectors |-> reflectors,
                     detector |-> detector, rotations |-> rotations,
                     projection |-> projection, mode |-> mode,
                     scaling |-> scaling, backend |-> backend]
         /\ result' = plot(reflectors, projection, mode, scaling, backend,
                           pyvista, detector)
    /\ shared' = shared \cap {"simulator.reflectors"}
    /\ query' = NoQuery
    /\ UNCHANGED << client, passed, reflectors, detector, rotations, pyvista,
                    kernel_vars >>

HasValue == "lines" \in DOMAIN result.value

\* simulation.lines_coordinates(index, coordinates="gnomonic")
LinesCoordinates ==
    /\ client \in {"projection", "batch"}
    /\ HasValue
    /\ \E index \in DOMAIN result.value.rotations.data :
          query' = [op |-> "lines_coordinates", index |-> index,
                    value |-> lines_coordinates(result.value, index)]
    /\ UNCHANGED << client, passed, shared, reflectors, detector, rotations,
                    pyvista, call, result, kernel_vars >>

\* simulation.zone_axes_coordinates(index, coordinates="gnomonic")
ZoneAxesCoordinates ==
    /\ client \in {"projection", "batch"}
    /\ HasValue
    /\ \E index \in DOMAIN result.value.rotations.data :
          query' = [op |-> "zone_axes_coordinates", index |-> index,
                    value |-> zone_axes_coordinates(result.value, index)]
    /\ UNCHANGED << client, passed, shared, reflectors, detector, rotations,
                    pyvista, call, result, kernel_vars >>

Next ==
    \/ OnDetector
    \/ CalculateMasterPattern
    \/ Plot
    \/ LinesCoordinates
    \/ ZoneAxesCoordinates

Spec == Init /\ [][Next]_vars

\* ------------------------------------------------------------------------
\* Simulators of any number of reflectors, none included
\* ------------------------------------------------------------------------

\* A simulator made from a reflector set of at most MaxReflectors
\* reflectors; the set may be empty, and fields may be missing.
InitOptions ==
    /\ client = "master"
    /\ \E n \in 0..MaxReflectors :
         \E no_th \in MissingSets(n), no_sf \in MissingSets(n) :
            reflectors = WithMissing(Calculated(SubSeq(HklPool, 1, n)), no_th, no_sf)
    /\ Constructed
    /\ detector = DefaultDetector
    /\ rotations = DefaultRotations
    /\ pyvista \in BOOLEAN
    /\ call = NoCall
    /\ result = [NoResult EXCEPT !.detector = detector]
    /\ query = NoQuery
    /\ KernelIdle

NextOptions == CalculateMasterPattern \/ Plot

SpecOptions == InitOptions /\ [][NextOptions]_vars

\* ------------------------------------------------------------------------
\* Simulations of orientation maps (batches of orientations)
\* ------------------------------------------------------------------------

\* Largest number of orientations of a one-dimensional map.
MaxBatch == 3

\* Reflector sets of MaxReflectors consecutive reflectors of the pool.
BatchReflectors ==
    { Calculated(SubSeq(HklPool, i, i + MaxReflectors - 1)) :
        i \in 1..(Len(HklPool) - MaxReflectors + 1) }

\* A rotation of 180 degrees about [101], which turns [100] into the detector
\* normal: orientations of a map are not confined to one rotation axis.
RotXZ180 == << <<0, 0, 1>>, <<0, -1, 0>>, <<1, 0, 0>> >>
BatchRotPool == RotPool \cup {RotXZ180}

BatchRotations ==
    UNION { { [shape |-> <<n>>, data |-> d] : d \in SeqN(BatchRotPool, n) }
            : n \in 1..MaxBatch }

\* Projection centers of a map: in the middle of the detector, and in its
\* lower right corner.
BatchPosPool == { CentredPosition, Position(<<-2, 0>>, <<0, 2>>) }

\* Detectors with one projection center, or, for maps of at most MaxNav
\* orientations, one per orientation.
BatchDetectors(shape) ==
    UNION { { [navigation_shape |-> sh, u_s |-> RotZ90, ranges |-> "computed",
               pos |-> d] :
                d \in SeqN(BatchPosPool, Product(sh)) }
            : sh \in {<<1>>} \cup (IF Product(shape) <= MaxNav THEN {shape} ELSE {}) }
    \cup StoredDetectors

InitBatch ==
    /\ client = "batch"
    /\ reflectors \in BatchReflectors
    /\ Constructed
    /\ rotations \in BatchRotations
    /\ detector \in BatchDetectors(rotations.shape)
    /\ pyvista = TRUE
    /\ call = NoCall
    /\ result = [NoResult EXCEPT !.detector = detector]
    /\ query = NoQuery
    /\ KernelIdle

NextBatch == OnDetector \/ LinesCoordinates \/ ZoneAxesCoordinates

SpecBatch == InitBatch /\ [][NextBatch]_vars

\* ------------------------------------------------------------------------
\* A caller that writes to its objects in place between calls
\* ------------------------------------------------------------------------

\* reflectors._data *= -1: every reflector g becomes -g.
negated(ref) ==
    [i \in DOMAIN ref |->
        [ref[i] EXCEPT !.hkl = << 0 - @[1], 0 - @[2], 0 - @[3] >>]]

\* detector.pc[...] = ...: every position gets the other projection center.
moved(det) ==
    [det EXCEPT !.pos =
        [p \in DOMAIN det.pos |-> CHOOSE q \in PosPool : q # det.pos[p]]]

\* rotations.data[...] = ...: every orientation is turned by 180 degrees
\* about the crystal x axis.
turned(rot) ==
    [rot EXCEPT !.data = [p \in DOMAIN rot.data |-> MatMul(RotX180, rot.data[p])]]

\* The result after a write to the simulator's reflectors.
ResultAfterReflectorsWrite ==
    IF HasValue /\ "result.reflectors" \in shared
    THEN [result EXCEPT !.value.reflectors = negated(@)]
    ELSE result

InitCapture ==
    /\ client = "capture"
    /\ reflectors = Calculated(SubSeq(HklPool, 1, MaxReflectors))
    /\ Constructed
    /\ detector \in {d \in Detectors : d.navigation_shape = <<1>>}
    /\ rotations \in Rotations
    /\ pyvista = TRUE
    /\ call = NoCall
    /\ result = [NoResult EXCEPT !.detector = detector]
    /\ query = NoQuery
    /\ KernelIdle

\* The caller writes to the reflectors it made the simulator from.
MutatePassed ==
    /\ client = "capture"
    /\ passed' = negated(passed)
    /\ IF "simulator.reflectors" \in shared
       THEN reflectors' = negated(reflectors) /\ result' = ResultAfterReflectorsWrite
       ELSE UNCHANGED << reflectors, result >>
    /\ UNCHANGED << client, shared, detector, rotations, pyvista, call, query,
                    kernel_vars >>

\* The caller writes to simulator.reflectors.
MutateSimulatorReflectors ==
    /\ client = "capture"
    /\ reflectors' = negated(reflectors)
    /\ passed' = IF "simulator.reflectors" \in shared THEN negated(passed)
                 ELSE passed
    /\ result' = ResultAfterReflectorsWrite
    /\ UNCHANGED << client, shared, detector, rotations, pyvista, call, query,
                    kernel_vars >>

\* The caller writes to its detector.
MutateDetector ==
    /\ client = "capture"
    /\ detector' = moved(detector)
    /\ result' = IF HasValue /\ "result.detector" \in shared
                 THEN [result EXCEPT !.value.detector = moved(@)]
                 ELSE result
    /\ UNCHANGED << client, passed, shared, reflectors, rotations, pyvista, call,
                    query, kernel_vars >>

\* The caller writes to its rotations.
MutateRotations ==
    /\ client = "capture"
    /\ rotations' = turned(rotations)
    /\ result' = IF HasValue /\ "result.rotations" \in shared
                 THEN [result EXCEPT !.value.rotations = turned(@)]
                 ELSE result
    /\ UNCHANGED << client, passed, shared, reflectors, detector, pyvista, call,
                    query, kernel_vars >>

NextCapture ==
    \/ OnDetector
    \/ MutatePassed
    \/ MutateSimulatorReflectors
    \/ MutateDetector
    \/ MutateRotations

SpecCapture == InitCapture /\ [][NextCapture]_vars


\* ------------------------------------------------------------------------
\* get_pattern: the kinematical master pattern kernel
\* ------------------------------------------------------------------------
\* Components of unit vectors are numerators over Scale, a dot product D is a
\* numerator over Scale^2, theta_reflector[i] is carried by the numerator of
\* sin(theta) over Scale^2, and intensities are integers.  The accumulator
\* holds twice the pattern value, so that 0.5 * intensity is an integer.

\* Largest number of reflectors (iterations of the prange loop).
MaxKernelReflectors == 2

\* Largest number of grid points of xyz_hemi.
MaxGrid == 2

Scale == 5

\* The tolerance 1e-7 of the band edge test, as ToleranceNum / ToleranceDen.
ToleranceNum == 1
ToleranceDen == 10000000

\* kikuchipy._utils.numba.vec_dot
vec_dot(a, b) == a[1] * b[1] + a[2] * b[2] + a[3] * b[3]

\* np.abs(D) <= 1e-7
on_band_edge(D) == Abs(D) * ToleranceDen <= ToleranceNum * Scale * Scale

\* Mutant: the band on both sides of the great circle.
within_band_both_sides(D, sin_theta) == Abs(D) <= sin_theta

\* angle = np.arccos(D); angle <= theta2 and angle >= theta1[i], with
\* theta2 = pi/2 and theta1[i] = pi/2 - theta_reflector[i]: arccos is
\* decreasing, so the test is 0 <= D <= sin(theta_reflector[i]).
within_band(D, sin_theta) == D >= 0 /\ D <= sin_theta

\* Twice what iteration (i, j) adds to pattern[j]; 0 when it adds nothing.
contribution(args, i, j) ==
    LET D == vec_dot(args.xyz_reflector[i], args.xyz_hemi[j])
    IN  IF on_band_edge(D) THEN args.intensity[i]
        ELSE IF within_band(D, args.theta_reflector[i])
             THEN 2 * args.intensity[i]
             ELSE 0

KernelReflectorPool ==
    << [xyz |-> <<0, 0, 5>>, sin_theta |-> 16, intensity |-> 1],
       [xyz |-> <<3, 4, 0>>, sin_theta |-> 13, intensity |-> 2],
       [xyz |-> <<0, 3, 4>>, sin_theta |-> 9,  intensity |-> 3] >>

GridPool ==
    << <<4, 0, 3>>, <<-4, 3, 0>>, <<0, 0, 5>>, <<0, -4, 3>>, <<4, 0, -3>> >>

KernelArgs ==
    { [intensity       |-> [i \in DOMAIN r |-> r[i].intensity],
       xyz_hemi        |-> g,
       xyz_reflector   |-> [i \in DOMAIN r |-> r[i].xyz],
       theta_reflector |-> [i \in DOMAIN r |-> r[i].sin_theta]]
      : r \in Selections(KernelReflectorPool, MaxKernelReflectors),
        g \in Selections(GridPool, MaxGrid) }

InitKernel ==
    /\ client = "kernel"
    /\ reflectors = Calculated(<< HklPool[1] >>)
    /\ Constructed
    /\ detector = DefaultDetector
    /\ rotations = DefaultRotations
    /\ pyvista = TRUE
    /\ call = NoCall
    /\ result = NoResult
    /\ query = NoQuery
    /\ k_args \in KernelArgs
    \* pattern = np.zeros(n); every iteration i starts at j = 0
    /\ pattern = [j \in DOMAIN k_args.xyz_hemi |-> 0]
    /\ task = [i \in DOMAIN k_args.xyz_reflector |->
                  [pc |-> "load", j |-> 1, tmp |-> 0]]
    /\ returned = FALSE

n_grid == Len(k_args.xyz_hemi)

\* Iteration i passes a grid point to which it adds nothing.
KernelSkip(i) ==
    /\ task[i].pc = "load"
    /\ task[i].j <= n_grid
    /\ contribution(k_args, i, task[i].j) = 0
    /\ task' = [task EXCEPT ![i].j = @ + 1]
    /\ UNCHANGED << api_vars, k_args, pattern, returned >>

\* Iteration i reads pattern[j], the right-hand side of the assignment.
KernelLoad(i) ==
    /\ task[i].pc = "load"
    /\ task[i].j <= n_grid
    /\ contribution(k_args, i, task[i].j) # 0
    /\ task' = [task EXCEPT ![i].pc = "store", ![i].tmp = pattern[task[i].j]]
    /\ UNCHANGED << api_vars, k_args, pattern, returned >>

\* Iteration i writes pattern[j] = (value read) + contribution.
KernelStore(i) ==
    /\ task[i].pc = "store"
    /\ pattern' = [pattern EXCEPT ![task[i].j] =
                      task[i].tmp + contribution(k_args, i, task[i].j)]
    /\ task' = [task EXCEPT ![i].pc = "load", ![i].j = @ + 1, ![i].tmp = 0]
    /\ UNCHANGED << api_vars, k_args, returned >>

\* return pattern, once every iteration of the prange loop has finished.
KernelReturn ==
    /\ client = "kernel"
    /\ ~returned
    /\ \A i \in DOMAIN task : task[i].pc = "load" /\ task[i].j = n_grid + 1
    /\ returned' = TRUE
    /\ UNCHANGED << api_vars, k_args, pattern, task >>

NextKernel ==
    \/ \E i \in DOMAIN task : KernelSkip(i)
    \/ \E i \in DOMAIN task : KernelLoad(i)
    \/ \E i \in DOMAIN task : KernelStore(i)
    \/ KernelReturn

SpecKernel == InitKernel /\ [][NextKernel]_vars


\* ------------------------------------------------------------------------
\* Claims
\* ------------------------------------------------------------------------

Accepted(op) == call.op = op /\ result.raised = ""

\* The detector-frame components of index triplet v at navigation position
\* p of the latest call, as (v . u_o[p]) . u_s.
DetectorFrame(v, p) == VecMat(VecMat(v, call.rotations.data[p]), call.detector.u_s)

NavPositions == DOMAIN call.rotations.data

Hkls(ref) == [i \in DOMAIN ref |-> ref[i].hkl]

\* C1: on_detector accepts a (detector, rotations) pair if and only if
\* detector.navigation_shape is (1,) or equals rotations.shape; every other
\* pair raises ValueError and no simulation is returned.
C1_ShapePrecondition ==
    call.op = "on_detector" =>
        IF \/ call.detector.navigation_shape = <<1>>
           \/ call.detector.navigation_shape = call.rotations.shape
        THEN result.raised = "" /\ "lines" \in DOMAIN result.value
        ELSE result.raised = "ValueError" /\ "lines" \notin DOMAIN result.value

\* A rejected pair of shapes with equally many positions: (2,) and (1, 2).
C1_Witness ==
    /\ call.op = "on_detector"
    /\ call.detector.navigation_shape = <<2>>
    /\ call.rotations.shape = <<1, 2>>
    /\ result.raised = "ValueError"

\* C4: a reflector is kept in the visible reflectors and lines if and only
\* if its detector-frame z component is > 0 at one navigation position at
\* least; no other reflector is dropped.
C4_ReflectorKeptIffUpperSomewhere ==
    Accepted("on_detector") =>
        LET ref  == call.reflectors
            kept == result.value.reflectors
        IN  /\ \A i \in DOMAIN ref :
                  (ref[i] \in Range(kept)) <=>
                  (\E p \in NavPositions : DetectorFrame(ref[i].hkl, p)[3] > 0)
            /\ Range(kept) \subseteq Range(ref)
            /\ Len(kept) = Cardinality(Range(kept))
            /\ result.value.lines.hkl = Hkls(kept)

\* Two positions; one reflector dropped, and one kept that is in the lower
\* hemisphere at one of the positions.
C4_Witness ==
    /\ Accepted("on_detector")
    /\ Cardinality(NavPositions) = 2
    /\ Len(result.value.reflectors) < Len(call.reflectors)
    /\ \E i \in DOMAIN call.reflectors :
          /\ call.reflectors[i] \in Range(result.value.reflectors)
          /\ \E p \in NavPositions : DetectorFrame(call.reflectors[i].hkl, p)[3] < 0

\* The gnomonic projection (X/Z, Y/Z) of v lies within the detector's x and y
\* ranges at position p, each extended by one pixel, bounds inclusive.
\* X/Z >= b is X*Z >= b*Z*Z for Z # 0.
C5_InExtendedBounds(v, p) ==
    LET pos == IF call.detector.navigation_shape = <<1>>
               THEN call.detector.pos[1] ELSE call.detector.pos[p]
        X == v[1]
        Y == v[2]
        Z == v[3]
    IN  /\ Z # 0
        /\ X * Z >= (pos.x_range[1] - pos.x_scale) * Z * Z
        /\ X * Z <= (pos.x_range[2] + pos.x_scale) * Z * Z
        /\ Y * Z >= (pos.y_range[1] - pos.y_scale) * Z * Z
        /\ Y * Z <= (pos.y_range[2] + pos.y_scale) * Z * Z

\* C5: a derived zone axis is kept if and only if it is in the upper
\* hemisphere at one navigation position at least and its gnomonic
\* projection lies within the one-pixel-extended gnomonic bounds (inclusive)
\* at one navigation position at least.
C5_ZoneAxisKeptIffUpperAndInBounds ==
    Accepted("on_detector") =>
        LET derived == zone_axes_from(Hkls(result.value.reflectors))
            kept    == result.value.zone_axes.uvw
        IN  /\ Range(kept) \subseteq Range(derived)
            /\ \A u \in Range(derived) :
                  (u \in Range(kept)) <=>
                  /\ \E p \in NavPositions : DetectorFrame(u, p)[3] > 0
                  /\ \E p \in NavPositions :
                        C5_InExtendedBounds(DetectorFrame(u, p), p)

\* A kept zone axis that projects exactly onto the extended border, beside
\* a derived zone axis that is dropped.
C5_Witness ==
    /\ Accepted("on_detector")
    /\ \E k \in DOMAIN result.value.zone_axes.uvw :
          \A p \in NavPositions :
             LET v   == DetectorFrame(result.value.zone_axes.uvw[k], p)
                 pos == call.detector.pos[1]
             IN  /\ call.detector.navigation_shape = <<1>>
                 /\ v[3] > 0
                 /\ \/ v[1] = (pos.x_range[2] + pos.x_scale) * v[3]
                    \/ v[2] = (pos.y_range[1] - pos.y_scale) * v[3]
    /\ Len(result.value.zone_axes.uvw)
         < Len(zone_axes_from(Hkls(result.value.reflectors)))


\* The index triplet v divided by the greatest common divisor of its indices.
C6_Reduced(v) ==
    LET g == Gcd(Gcd(v[1], v[2]), v[3])
    IN  << v[1] \div g, v[2] \div g, v[3] \div g >>

\* C6: the zone axes on_detector derives are exactly the reduced-integer
\* pairwise cross products of the visible reflectors only; the collection
\* holds no null vector [000] and no index triplet twice, and so do the zone
\* axes kept in the result.
C6_ZoneAxesAreReducedCrossProducts ==
    Accepted("on_detector") =>
        LET vis      == Range(Hkls(result.value.reflectors))
            products == {Cross(a, b) : a \in vis, b \in vis} \ {<<0, 0, 0>>}
            expected == {C6_Reduced(v) : v \in products}
            derived  == zone_axes_from(Hkls(result.value.reflectors))
            kept     == result.value.zone_axes.uvw
        IN  /\ Range(derived) = expected
            /\ Len(derived) = Cardinality(Range(derived))
            /\ <<0, 0, 0>> \notin Range(derived)
            /\ Range(kept) \subseteq expected
            /\ Len(kept) = Cardinality(Range(kept))

\* A reflector was dropped, and a kept zone axis is the reduction of a cross
\* product with a common factor, e.g. [001] x [201] = [020] -> [010].
C6_Witness ==
    /\ Accepted("on_detector")
    /\ Len(result.value.reflectors) < Len(call.reflectors)
    /\ \E a \in Range(Hkls(result.value.reflectors)),
          b \in Range(Hkls(result.value.reflectors)) :
          /\ Cross(a, b) # <<0, 0, 0>>
          /\ C6_Reduced(Cross(a, b)) # Cross(a, b)
          /\ C6_Reduced(Cross(a, b)) \in Range(result.value.zone_axes.uvw)

\* C7: at every navigation index the reflectors and zone axes flagged
\* in-pattern are among those retained, and every retained reflector and
\* every retained zone axis is flagged in-pattern at one index at least.
C7_VisibleSetMonotonicity ==
    Accepted("on_detector") =>
        LET lines     == result.value.lines
            zone_axes == result.value.zone_axes
        IN  /\ \A p \in NavPositions :
                  /\ DOMAIN lines.in_pattern[p] = DOMAIN lines.hkl
                  /\ DOMAIN zone_axes.in_pattern[p] = DOMAIN zone_axes.uvw
            /\ DOMAIN lines.in_pattern = NavPositions
            /\ DOMAIN zone_axes.in_pattern = NavPositions
            /\ \A i \in DOMAIN call.reflectors : \A p \in NavPositions :
                  DetectorFrame(call.reflectors[i].hkl, p)[3] > 0 =>
                     /\ call.reflectors[i] \in Range(result.value.reflectors)
                     /\ \E k \in DOMAIN lines.hkl :
                           /\ lines.hkl[k] = call.reflectors[i].hkl
                           /\ lines.in_pattern[p][k]
            /\ \A k \in DOMAIN lines.hkl :
                  \E p \in NavPositions : lines.in_pattern[p][k]
            /\ \A k \in DOMAIN zone_axes.uvw :
                  \E p \in NavPositions : zone_axes.in_pattern[p][k]

\* Two positions; a retained reflector and a retained zone axis are each
\* flagged at one position and not at the other.
C7_Witness ==
    /\ Accepted("on_detector")
    /\ Cardinality(NavPositions) = 2
    /\ \E k \in DOMAIN result.value.lines.hkl :
          \E p \in NavPositions : ~result.value.lines.in_pattern[p][k]
    /\ \E k \in DOMAIN result.value.zone_axes.uvw :
          \E p \in NavPositions : ~result.value.zone_axes.in_pattern[p][k]

\* C8: calculate_master_pattern raises ValueError when the reflectors have
\* no Bragg angles or no structure factors, whatever scaling (None included)
\* and hemisphere are passed.
C8_MissingFieldsRaiseValueError ==
    (/\ call.op = "calculate_master_pattern"
     /\ \/ \A i \in DOMAIN call.reflectors : isnan(call.reflectors[i].theta)
        \/ \A i \in DOMAIN call.reflectors :
              isnan(call.reflectors[i].structure_factor))
    => /\ result.raised = "ValueError"
       /\ result.kernel_passes = 0

\* Bragg angles are there, structure factors are not, and scaling is None
\* (which needs no structure factor).
C8_Witness ==
    /\ call.op = "calculate_master_pattern"
    /\ call.scaling = None
    /\ call.hemisphere = "both"
    /\ \A i \in DOMAIN call.reflectors :
          /\ ~isnan(call.reflectors[i].theta)
          /\ isnan(call.reflectors[i].structure_factor)
    /\ Len(call.reflectors) > 1
    /\ result.raised = "ValueError"

C9_UnknownOption ==
    \/ call.op = "calculate_master_pattern" /\ call.scaling \notin {"linear", "square", None}
    \/ /\ call.op = "plot"
       /\ \/ call.scaling \notin {"linear", "square", None}
          \/ call.mode \notin {"lines", "bands"}
          \/ call.projection \notin {"stereographic", "spherical"}

C9_NothingDone == ~result.drawn /\ result.kernel_passes = 0

\* C9 as stated: every unknown scaling, mode or projection string is
\* rejected with ValueError before anything is drawn or any kernel pass run.
C9_UnknownOptionsRaiseValueError ==
    C9_UnknownOption => result.raised = "ValueError" /\ C9_NothingDone

C9_PyVistaMissing ==
    /\ call.op = "plot"
    /\ call.projection = "spherical"
    /\ call.backend = "pyvista"
    /\ ~pyvista

\* The simulator holds no reflectors, and the call reads the first Bragg
\* angle: calculate_master_pattern, or plot with mode "bands".
C9_NoFirstBraggAngle ==
    /\ call.reflectors = <<>>
    /\ \/ call.op = "calculate_master_pattern"
       \/ call.op = "plot" /\ call.mode = "bands"

\* C9 (amended): unknown option strings are rejected before anything is
\* drawn or any kernel pass is run; the error is ValueError, except that
\* plot called with projection "spherical" and backend "pyvista" while
\* PyVista is not installed raises ImportError before it looks at mode and
\* scaling, and that on a simulator of no reflectors calculate_master_pattern
\* and plot with mode "bands" raise IndexError before they look at scaling
\* and projection.
C9_UnknownOptionsRejected ==
    C9_UnknownOption =>
        /\ C9_NothingDone
        /\ result.raised = IF C9_PyVistaMissing THEN "ImportError"
                           ELSE IF C9_NoFirstBraggAngle THEN "IndexError"
                           ELSE "ValueError"

\* An unknown mode passed to plot together with projection "spherical" and
\* backend "pyvista" while PyVista is not installed: the call is rejected
\* with ImportError and nothing is drawn.
C9_Witness ==
    /\ C9_PyVistaMissing
    /\ call.mode = "points"
    /\ result.raised = "ImportError"
    /\ ~result.drawn

\* An unknown scaling passed to calculate_master_pattern of a simulator of
\* no reflectors: IndexError, and no kernel pass.
C9_WitnessNoReflectors ==
    /\ call.op = "calculate_master_pattern"
    /\ call.reflectors = <<>>
    /\ call.scaling = "cubic"
    /\ result.raised = "IndexError"
    /\ result.kernel_passes = 0

\* An unknown projection passed to plot of a simulator of no reflectors,
\* with mode "lines" and a known scaling: ValueError, and nothing drawn.
C9_WitnessNoReflectorsLines ==
    /\ call.op = "plot"
    /\ call.reflectors = <<>>
    /\ call.mode = "lines"
    /\ call.scaling = "linear"
    /\ call.projection = "lambert"
    /\ result.raised = "ValueError"
    /\ ~result.drawn

\* C10: when on_detector or calculate_master_pattern raises a precondition
\* error, nothing was projected, no kernel pass was run, no progress output
\* was written, and reflectors, detector and rotations are as before the
\* call.
C10_RejectedCallDoesNothing ==
    (call.op \in {"on_detector", "calculate_master_pattern"}
        /\ result.raised = "ValueError") =>
        /\ result.stdout = <<>>
        /\ result.stderr = <<>>
        /\ result.kernel_passes = 0
        /\ result.value = NoValue
        /\ reflectors = call.reflectors
        /\ detector = call.detector
        /\ rotations = call.rotations

\* The last of the checks fails: an unknown scaling, with Bragg angles and
\* structure factors calculated.
C10_Witness ==
    /\ call.op = "calculate_master_pattern"
    /\ call.scaling = "cubic"
    /\ call.hemisphere = "both"
    /\ ~isnan(call.reflectors[1].theta)
    /\ ~isnan(call.reflectors[1].structure_factor)
    /\ result.raised = "ValueError"
    /\ result.stdout = <<>>
    /\ result.stderr = <<>>


\* Twice c(i, j) of the claim: half the intensity on the band edge, the
\* intensity within the band, nothing elsewhere.
C2_c(i, j) ==
    LET D == vec_dot(k_args.xyz_reflector[i], k_args.xyz_hemi[j])
    IN  IF Abs(D) * ToleranceDen <= ToleranceNum * Scale * Scale
        THEN k_args.intensity[i]
        ELSE IF 0 <= D /\ D <= k_args.theta_reflector[i]
             THEN 2 * k_args.intensity[i]
             ELSE 0

RECURSIVE C2_Sum(_, _)
C2_Sum(m, j) == IF m = 0 THEN 0 ELSE C2_Sum(m - 1, j) + C2_c(m, j)

\* C2: the value get_pattern returns at grid point j is the sum over all
\* reflectors i of c(i, j).
C2_PatternIsSumOfContributions ==
    returned =>
        \A j \in DOMAIN pattern :
            pattern[j] = C2_Sum(Len(k_args.xyz_reflector), j)

\* C3: the accumulation is free of write conflicts: whenever an iteration
\* of the loop over reflectors writes a grid point's accumulator, it adds
\* its contribution to the value the accumulator holds at that moment, so
\* nothing another iteration has added is lost.
C3_NoContributionLost ==
    [][\A j \in DOMAIN pattern :
          pattern'[j] # pattern[j] =>
              \E i \in DOMAIN task :
                  /\ task[i].pc = "store"
                  /\ task[i].j = j
                  /\ task'[i].j = j + 1
                  /\ pattern'[j] = pattern[j] + contribution(k_args, i, j)]_vars


\* C11: for every non-negative half_size the master pattern array has shape
\* (2 half_size + 1, 2 half_size + 1) for hemisphere "upper" or "lower" and
\* (2, 2 half_size + 1, 2 half_size + 1) for "both", and as many axes are
\* described as the array has dimensions.
C11_MasterPatternShape ==
    Accepted("calculate_master_pattern") =>
        LET size == 2 * call.half_size + 1
        IN  /\ result.value.shape =
                  IF call.hemisphere = "both" THEN << 2, size, size >>
                  ELSE << size, size >>
            /\ Len(result.value.axes) = Len(result.value.shape)


\* C12: a write to the reflectors the simulator was made from never changes
\* the simulator's reflectors, and no write to the reflectors passed, the
\* detector, the rotations or the simulator's reflectors changes the
\* result on_detector returned; the result's detector and rotations hold
\* the values the arguments have when the call returns, and no field shares
\* memory with them.
C12_DeepCopyOnCapture ==
    [][/\ passed' # passed => reflectors' = reflectors
       /\ (MutatePassed \/ MutateSimulatorReflectors \/ MutateDetector
             \/ MutateRotations) => result' = result
       /\ shared' = {}
       /\ (OnDetector /\ result'.raised = "") =>
             /\ result'.value.detector = detector'
             /\ result'.value.rotations = call'.rotations]_vars

\* After on_detector has returned, the caller has written to every object:
\* they all differ from the arguments of the call, and the result still
\* holds the values of the arguments.
C12_Witness ==
    /\ Accepted("on_detector")
    /\ passed # call.reflectors
    /\ reflectors # call.reflectors
    /\ detector # call.detector
    /\ rotations # call.rotations
    /\ result.value.detector = call.detector
    /\ result.value.rotations = call.rotations
    /\ Len(result.value.reflectors) > 0


\* C14: in a simulation made with one shared detector, every navigation
\* position holding the rotation of the position queried has the line end
\* point coordinates the query returned, whatever the other positions hold.
C14_PositionIndependence ==
    (query.op = "lines_coordinates"
        /\ result.value.detector.navigation_shape = <<1>>) =>
        \A q \in DOMAIN result.value.rotations.data :
            result.value.rotations.data[q]
                = result.value.rotations.data[query.index]
            => lines_coordinates(result.value, q) = query.value

\* Lines are returned at a position of a map of three orientations; another
\* position holds the same rotation, the third position a different one,
\* and at the third position other lines are seen.
C14_Witness ==
    /\ query.op = "lines_coordinates"
    /\ result.value.detector.navigation_shape = <<1>>
    /\ Len(query.value) > 0
    /\ \E q, r \in DOMAIN result.value.rotations.data :
          /\ q # query.index
          /\ result.value.rotations.data[q]
                = result.value.rotations.data[query.index]
          /\ result.value.rotations.data[r]
                # result.value.rotations.data[query.index]
          /\ lines_coordinates(result.value, r) # query.value


\* The simulation of the orientation at index alone, with the detector d.
C15_Single(d, index) ==
    on_detector(call.reflectors, d,
                [shape |-> <<1>>, data |-> << call.rotations.data[index] >>]).value

\* The detector with the one projection center that d has at index.
C15_DetectorAt(d, index) ==
    [navigation_shape |-> <<1>>, u_s |-> d.u_s, ranges |-> d.ranges,
     pos |-> << detector_position(d, index) >>]

\* The single-orientation simulation of R[idx] is contained in the batch made
\* with the same, single projection center.
C15_SingleWithinBatch ==
    (query.op = "zone_axes_coordinates"
        /\ call.detector.navigation_shape = <<1>>) =>
        Range(zone_axes_coordinates(C15_Single(call.detector, query.index), 1))
            \subseteq Range(query.value)

\* The batch made with the single detector whose projection center is the
\* one the detector of the call has at the index queried.
C15_Other ==
    on_detector(call.reflectors, C15_DetectorAt(call.detector, query.index),
                call.rotations).value

\* Label [uvw] and position of every zone axis a simulation returns at index.
C15_Returned(sim, index) ==
    LET v_d == sim.zone_axes.uvw_detector[index]
    IN  Compress([k \in DOMAIN v_d |->
                     [uvw |-> sim.zone_axes.uvw[k], v |-> v_d[k]]],
                 [k \in DOMAIN v_d |->
                     /\ sim.zone_axes.in_pattern[index][k]
                     /\ point_within_r_gnomonic(v_d[k],
                                                sim.zone_axes.max_r_gnomonic)])

\* The positions of the zone axes in a sequence of labelled zone axes.
C15_Positions(axes) ==
    [i \in DOMAIN axes |-> point(axes[i].v[1], axes[i].v[2], axes[i].v[3])]

\* C15 (as stated): the zone axis coordinates of the single-orientation
\* simulation of R[idx] are among those the batch returns at idx, and a
\* batch with one projection center per position returns at idx the labels
\* and positions of the batch made with the single center PC[idx].
C15_BatchConsistency ==
    /\ C15_SingleWithinBatch
    /\ (query.op = "zone_axes_coordinates"
            /\ call.detector.navigation_shape # <<1>>) =>
            /\ zone_axes_coordinates(C15_Other, query.index) = query.value
            /\ C15_Returned(C15_Other, query.index)
                  = C15_Returned(result.value, query.index)

\* The zone axis with detector-frame vector v lies within the gnomonic
\* bounds, extended by one pixel, of detector position pos.
C15_WithinBounds(v, pos) == within_bounds_at(v, pos)

\* The zone axis with detector-frame vector v lies within the gnomonic
\* radius r_max of detector position pos.
C15_WithinRadius(v, pos) == point_within_r_gnomonic(v, pos.r_max)

\* The zone axes of a sequence within the bounds and radius of pos.
C15_Seen(axes, pos) ==
    SelectSeq(axes, LAMBDA a : C15_WithinBounds(a.v, pos)
                               /\ C15_WithinRadius(a.v, pos))

\* C15 (amended): the zone axis coordinates of the single-orientation
\* simulation of R[idx] are among those the batch returns at idx, and a
\* batch with one projection center per position returns at idx, among the
\* zone axes within the extended bounds and the gnomonic radius of PC[idx],
\* the labels and positions of the batch made with the single center
\* PC[idx]; zone axes beyond those bounds or that radius may be returned by
\* one batch and not by the other.
C15_BatchConsistencyWithinBounds ==
    /\ C15_SingleWithinBatch
    /\ (query.op = "zone_axes_coordinates"
            /\ call.detector.navigation_shape # <<1>>) =>
            LET pos == detector_position(call.detector, query.index)
            IN  /\ query.value
                      = C15_Positions(C15_Returned(result.value, query.index))
                /\ C15_Seen(C15_Returned(C15_Other, query.index), pos)
                      = C15_Seen(C15_Returned(result.value, query.index), pos)

\* The amended statement without the radius: zone axes within the extended
\* bounds of PC[idx] alone.
C15_WithinBoundsOnly ==
    (query.op = "zone_axes_coordinates"
        /\ call.detector.navigation_shape # <<1>>) =>
        LET pos == detector_position(call.detector, query.index)
            in_bounds(axes) ==
                SelectSeq(axes, LAMBDA a : C15_WithinBounds(a.v, pos))
        IN  in_bounds(C15_Returned(C15_Other, query.index))
              = in_bounds(C15_Returned(result.value, query.index))

\* The amended statement without the bounds: zone axes within the gnomonic
\* radius of PC[idx] alone.
C15_WithinRadiusOnly ==
    (query.op = "zone_axes_coordinates"
        /\ call.detector.navigation_shape # <<1>>) =>
        LET pos == detector_position(call.detector, query.index)
            in_radius(axes) ==
                SelectSeq(axes, LAMBDA a : C15_WithinRadius(a.v, pos))
        IN  in_radius(C15_Returned(C15_Other, query.index))
              = in_radius(C15_Returned(result.value, query.index))

\* A batch with different projection centers returns, at an index, a zone
\* axis within the largest radius of the detector but beyond the bounds of
\* that position, which is on the detector at another position (in the upper
\* hemisphere and within the bounds there) and which the batch made with
\* the single center PC[idx] does not return.
C15_Witness ==
    /\ query.op = "zone_axes_coordinates"
    /\ call.detector.navigation_shape # <<1>>
    /\ LET sim  == result.value
           v_d  == sim.zone_axes.uvw_detector
           pos  == detector_position(call.detector, query.index)
           axes == C15_Returned(sim, query.index)
       IN  \E k \in DOMAIN sim.zone_axes.uvw :
           /\ [uvw |-> sim.zone_axes.uvw[k], v |-> v_d[query.index][k]]
                  \in Range(axes)
           /\ ~C15_WithinBounds(v_d[query.index][k], pos)
           /\ \E q \in DOMAIN v_d :
                 /\ v_d[q][k][3] > 0
                 /\ within_bounds_at(v_d[q][k],
                                     detector_position(call.detector, q))
           /\ \A a \in Range(C15_Returned(C15_Other, query.index)) :
                 a.uvw # sim.zone_axes.uvw[k]


\* Zone axis k of the result is in the upper hemisphere at position p.
C16_Upper(p, k) == result.value.zone_axes.uvw_detector[p][k][3] > 0

\* The point of zone axis k of the result at position p lies within the
\* gnomonic bounds, extended by one pixel, of the detector at position q.
C16_Within(p, k, q) ==
    within_bounds_at(result.value.zone_axes.uvw_detector[p][k],
                     detector_position(call.detector, q))

\* C16 (as stated): the in-pattern flag of a visible zone axis at a position
\* is true only if the zone axis is in the upper hemisphere at that position
\* and its point lies within the extended gnomonic bounds of the detector at
\* that same position.
C16_FlagGatedByBoundsAtPosition ==
    HasValue =>
        \A p \in DOMAIN result.value.zone_axes.in_pattern :
            \A k \in DOMAIN result.value.zone_axes.uvw :
                result.value.zone_axes.in_pattern[p][k] =>
                    C16_Upper(p, k) /\ C16_Within(p, k, p)

\* C16 (amended): the in-pattern flag of a visible zone axis at a position is
\* true exactly when the zone axis is in the upper hemisphere at that
\* position; the extended gnomonic bounds gate only which zone axes are
\* visible: a visible zone axis is in the upper hemisphere at some position
\* and within the bounds of the detector at some position, not necessarily
\* the same one.
C16_FlagIsUpperHemisphere ==
    HasValue =>
        \A k \in DOMAIN result.value.zone_axes.uvw :
            /\ \A p \in DOMAIN result.value.zone_axes.in_pattern :
                  result.value.zone_axes.in_pattern[p][k] = C16_Upper(p, k)
            /\ \E p \in DOMAIN result.value.zone_axes.in_pattern :
                  C16_Upper(p, k)
            /\ \E q \in DOMAIN result.value.zone_axes.in_pattern :
                  C16_Within(q, k, q)

\* A visible zone axis is flagged at a position where its point lies beyond
\* the extended bounds; it is within the bounds at another position.
C16_Witness ==
    /\ HasValue
    /\ \E k \in DOMAIN result.value.zone_axes.uvw :
          \E p, q \in DOMAIN result.value.zone_axes.in_pattern :
              /\ result.value.zone_axes.in_pattern[p][k]
              /\ ~C16_Within(p, k, p)
              /\ C16_Within(q, k, q)


\* get_pattern has returned the pattern of one reflector of intensity 1.
C17_SingleReflector ==
    /\ client = "kernel"
    /\ returned
    /\ Len(k_args.xyz_reflector) = 1
    /\ k_args.intensity[1] = 1

\* The dot product, times Scale * Scale, of the reflector and grid point j.
C17_D(j) ==
    k_args.xyz_reflector[1][1] * k_args.xyz_hemi[j][1]
        + k_args.xyz_reflector[1][2] * k_args.xyz_hemi[j][2]
        + k_args.xyz_reflector[1][3] * k_args.xyz_hemi[j][3]

\* Grid point j lies in the spherical band of angular half-width theta
\* around the great circle normal to the reflector: the angle between the
\* two is within theta of pi/2, so |cos(angle)| <= sin(theta).
C17_InBand(j) ==
    /\ C17_D(j) <= k_args.theta_reflector[1]
    /\ C17_D(j) >= 0 - k_args.theta_reflector[1]

\* C17 (as stated): for a single reflector of intensity 1, the grid points
\* given a contribution of 1 are exactly those in the spherical band of
\* angular half-width theta around the great circle normal to the reflector.
C17_OneInTheWholeBand ==
    C17_SingleReflector =>
        \A j \in DOMAIN pattern : (pattern[j] = 2) <=> C17_InBand(j)

\* C17 (amended): for a single reflector of intensity 1, the grid points
\* given a contribution of 1 are exactly those in the half of the band on
\* the reflector's side of the great circle, the circle left out: the angle
\* to the reflector is in [pi/2 - theta, pi/2) beyond the tolerance 1e-7.
\* Grid points on the circle get 0.5, all others, including the half of the
\* band on the far side of the circle, get 0.
C17_OneInTheHalfBand ==
    C17_SingleReflector =>
        \A j \in DOMAIN pattern :
            LET on_circle == Abs(C17_D(j)) * ToleranceDen
                                <= ToleranceNum * Scale * Scale
                near_half == C17_D(j) > 0 /\ C17_InBand(j) /\ ~on_circle
            IN  /\ (pattern[j] = 2) <=> near_half
                /\ (pattern[j] = 1) <=> on_circle
                /\ (pattern[j] = 0) <=> (~near_half /\ ~on_circle)

\* One grid point in the near half of the band has got 1, and one in the
\* far half of the band has got 0.
C17_Witness ==
    /\ C17_SingleReflector
    /\ \E j, l \in DOMAIN pattern :
          /\ pattern[j] = 2
          /\ C17_InBand(l) /\ C17_D(l) < 0 /\ pattern[l] = 0


\* C19: when a zone axis has a zero detector-frame z component at some
\* navigation position, on_detector does not evaluate x = X/Z and y = Y/Z as
\* NaN or Inf for that position (and does not count the position as one
\* where the zone axis is within the gnomonic bounds).
C19_NoNaNOrInf ==
    HasValue =>
        LET v_d == result.value.zone_axes.uvw_detector
        IN  \A p \in DOMAIN v_d :
                \A k \in DOMAIN v_d[p] :
                    v_d[p][k][3] = 0 =>
                        /\ uvw_xg(v_d)[p][k].kind = "finite"
                        /\ uvw_yg(v_d)[p][k].kind = "finite"
                        /\ ~within_bounds_at(v_d[p][k],
                               detector_position(call.detector, p))


\* ------------------------------------------------------------------------
\* Simulations of one orientation with symmetrised reflectors
\* ------------------------------------------------------------------------

\* Largest number of families {hkl} of a symmetrised reflector set.
MaxFamilies == 2

\* The proper and improper rotations of the point group m-3m of the cubic
\* phase, acting on index triplets: the permutations of the three indices
\* combined with the changes of their signs.
PointGroupPermutations ==
    << <<1, 2, 3>>, <<2, 3, 1>>, <<3, 1, 2>>,
       <<2, 1, 3>>, <<1, 3, 2>>, <<3, 2, 1>> >>

PointGroupSigns ==
    << <<1, 1, 1>>,  <<-1, 1, 1>>,  <<1, -1, 1>>,  <<-1, -1, 1>>,
       <<1, 1, -1>>, <<-1, 1, -1>>, <<1, -1, -1>>, <<-1, -1, -1>> >>

\* point_group.outer(g): the images of g under the 48 operations, the
\* identity first.
equivalents(g) ==
    [n \in 1..(Len(PointGroupPermutations) * Len(PointGroupSigns)) |->
        LET perm == PointGroupPermutations[((n - 1) \div Len(PointGroupSigns)) + 1]
            sign == PointGroupSigns[((n - 1) % Len(PointGroupSigns)) + 1]
        IN  << sign[1] * g[perm[1]], sign[2] * g[perm[2]], sign[3] * g[perm[3]] >>]

RECURSIVE all_equivalents(_)
all_equivalents(hkls) ==
    IF hkls = <<>> THEN <<>>
    ELSE equivalents(Head(hkls)) \o all_equivalents(Tail(hkls))

\* g.symmetrise(): every reflector that is symmetrically equivalent to one
\* of the reflectors given, each once, family by family.
symmetrise(hkls) == unique_from(all_equivalents(hkls), <<>>)

\* The reflectors that the families of the aluminium phase are made from.
FamilyPool == << <<1, 1, 1>>, <<2, 0, 0>>, <<2, 2, 0>>, <<3, 1, 1>> >>

\* Symmetrised reflector sets: they hold -g with every g, the inversion
\* being an operation of the point group.
SymmetrisedReflectors ==
    { Calculated(symmetrise(h)) : h \in Selections(FamilyPool, MaxFamilies) }

InitSymmetrised ==
    /\ client = "batch"
    /\ reflectors \in SymmetrisedReflectors
    /\ Constructed
    /\ rotations \in { [shape |-> <<1>>, data |-> << r >>] : r \in BatchRotPool }
    /\ detector = DefaultDetector
    /\ pyvista = TRUE
    /\ call = NoCall
    /\ result = [NoResult EXCEPT !.detector = detector]
    /\ query = NoQuery
    /\ KernelIdle

SpecSymmetrised == InitSymmetrised /\ [][NextBatch]_vars

\* on_detector has returned the simulation of a single orientation.
C20_SingleOrientation ==
    /\ call.op = "on_detector"
    /\ HasValue
    /\ Len(call.rotations.data) = 1

\* The detector-frame z component of reflector g for the orientation.
C20_z(g) == VecMat(VecMat(g, call.rotations.data[1]), call.detector.u_s)[3]

\* The number of the reflectors g and -g that are retained.
C20_Retained(g) ==
    Cardinality({g, << 0 - g[1], 0 - g[2], 0 - g[3] >>}
                    \cap Range(result.value.lines.hkl))

\* The reflectors of the simulator.
C20_Hkl == { call.reflectors[i].hkl : i \in DOMAIN call.reflectors }

\* C20: for a single orientation, a reflector g and its negative -g are
\* never both retained; exactly one of them is retained when the
\* detector-frame z component of g is not zero and neither when it is zero,
\* so that a reflector set holding -g with every g, none of them in the
\* detector plane, is reduced to exactly half its size.
C20_OneOfEachPair ==
    C20_SingleOrientation =>
        /\ \A g \in C20_Hkl :
              << 0 - g[1], 0 - g[2], 0 - g[3] >> \in C20_Hkl =>
                  C20_Retained(g) = (IF C20_z(g) # 0 THEN 1 ELSE 0)
        /\ (\A g \in C20_Hkl :
              /\ << 0 - g[1], 0 - g[2], 0 - g[3] >> \in C20_Hkl
              /\ C20_z(g) # 0)
            => 2 * Len(result.value.reflectors) = Len(call.reflectors)

\* The families {111} and {311}, 32 reflectors, were simulated for one
\* orientation with no reflector in the detector plane, and 16 reflectors
\* are retained.
C20_Witness ==
    /\ C20_SingleOrientation
    /\ Len(call.reflectors) = 32
    /\ \A g \in C20_Hkl :
          << 0 - g[1], 0 - g[2], 0 - g[3] >> \in C20_Hkl /\ C20_z(g) # 0
    /\ Len(result.value.reflectors) = 16

\* A pair (g, -g) in the detector plane was simulated: neither is retained.
C20_WitnessInPlane ==
    /\ C20_SingleOrientation
    /\ \E g \in C20_Hkl :
          /\ << 0 - g[1], 0 - g[2], 0 - g[3] >> \in C20_Hkl
          /\ C20_z(g) = 0
          /\ C20_Retained(g) = 0


\* Vector v of the crystal in the detector frame at position p of the call.
C22_ToDetector(v, p) ==
    VecMat(VecMat(v, call.rotations.data[p]), call.detector.u_s)

\* The place of reflector r among the simulator's reflectors.
C22_Place(r) == CHOOSE i \in DOMAIN call.reflectors : call.reflectors[i] = r

\* Vectors, detector coordinates and flags of a collection of the result
\* are aligned: as many of each, and the k-th coordinates and the k-th flag
\* at every position are those of the k-th vector.
C22_Aligned(vectors, v_detector, in_pattern) ==
    /\ DOMAIN v_detector = DOMAIN call.rotations.data
    /\ DOMAIN in_pattern = DOMAIN call.rotations.data
    /\ \A p \in DOMAIN call.rotations.data :
          /\ Len(v_detector[p]) = Len(vectors)
          /\ Len(in_pattern[p]) = Len(vectors)
          /\ \A k \in DOMAIN vectors :
                /\ v_detector[p][k] = C22_ToDetector(vectors[k], p)
                /\ in_pattern[p][k] = (C22_ToDetector(vectors[k], p)[3] > 0)

\* C22: the visible reflectors keep the relative order of the simulator's
\* reflectors; there are as many visible lines as visible reflectors, and
\* the k-th line's hkl, detector coordinates at every position and
\* in-pattern flags belong to the k-th visible reflector; likewise the k-th
\* zone axis' uvw, detector coordinates and in-pattern flags belong together.
C22_IndexAlignment ==
    HasValue =>
        LET sim == result.value
        IN  /\ \A k \in DOMAIN sim.reflectors :
                  \E i \in DOMAIN call.reflectors :
                      call.reflectors[i] = sim.reflectors[k]
            /\ \A k, l \in DOMAIN sim.reflectors :
                  k < l => C22_Place(sim.reflectors[k]) < C22_Place(sim.reflectors[l])
            /\ Len(sim.lines.hkl) = Len(sim.reflectors)
            /\ \A k \in DOMAIN sim.reflectors :
                  sim.lines.hkl[k] = sim.reflectors[k].hkl
            /\ C22_Aligned(sim.lines.hkl, sim.lines.hkl_detector,
                           sim.lines.in_pattern)
            /\ C22_Aligned(sim.zone_axes.uvw, sim.zone_axes.uvw_detector,
                           sim.zone_axes.in_pattern)

\* A result of two orientations in which reflectors and zone axes have been
\* left out, and two or more of each are kept, with flags that differ
\* between the vectors.
C22_Witness ==
    /\ HasValue
    /\ Len(call.rotations.data) = 2
    /\ Len(result.value.reflectors) >= 2
    /\ Len(result.value.reflectors) < Len(call.reflectors)
    /\ result.value.reflectors[1] # call.reflectors[1]
    /\ Len(result.value.zone_axes.uvw) >= 2
    /\ \E p \in DOMAIN call.rotations.data :
          /\ result.value.lines.in_pattern[p][1] # result.value.lines.in_pattern[p][2]
          /\ result.value.zone_axes.in_pattern[p][1]
                # result.value.zone_axes.in_pattern[p][2]


\* C23: every zone axis retained by on_detector is on the detector
\* somewhere: there is a single navigation position at which it is both in
\* the upper hemisphere and within the one-pixel-extended gnomonic bounds
\* of the detector at that position.
C23_RetainedIsOnDetectorSomewhere ==
    HasValue =>
        \A k \in DOMAIN result.value.zone_axes.uvw :
            \E p \in DOMAIN result.value.zone_axes.uvw_detector :
                LET v == result.value.zone_axes.uvw_detector[p][k]
                IN  /\ v[3] > 0
                    /\ within_bounds_at(v, detector_position(call.detector, p))


\* C24: the missing-field check of calculate_master_pattern covers every
\* reflector: when any reflector of the set, not only the first, has no
\* Bragg angle or no structure factor (NaN), the call raises ValueError and
\* no kernel pass is run on NaN values.
C24_EveryReflectorChecked ==
    (/\ call.op = "calculate_master_pattern"
     /\ \E i \in DOMAIN call.reflectors :
           \/ isnan(call.reflectors[i].theta)
           \/ isnan(call.reflectors[i].structure_factor)) =>
        /\ result.raised = "ValueError"
        /\ result.kernel_passes = 0

\* C25: the height and width axes of the master pattern are centered: for
\* every half_size each has size 2 * half_size + 1 and offset -half_size, so
\* that the center pixel, of index half_size, has axis coordinate 0.
C25_AxesCentered ==
    Accepted("calculate_master_pattern") =>
        \A a \in Range(result.value.axes) :
            a.name \in {"height", "width"} =>
                /\ a.size = 2 * call.half_size + 1
                /\ a.offset = 0 - call.half_size
                /\ a.offset + call.half_size = 0

====
